---- MODULE Spec2Model ----
(***************************************************************************)
(* A model of orion's two streaming MAC engines,                           *)
(*   src/hazardous/mac/poly1305.rs  (Poly1305, RFC 8439) and               *)
(*   src/hazardous/mac/hmac.rs      (HMAC-SHA512, RFC 2104).               *)
(*                                                                         *)
(* Machine words.  TLC's integers are 32-bit signed, so a Rust u32 or u64  *)
(* is kept as a little-endian sequence of 13-bit digits: a u32 is three    *)
(* digits (the third below 2^6), a u64 is five (the fifth below 2^12).     *)
(* Two digits are exactly one 26-bit limb of the Poly1305 accumulator.     *)
(***************************************************************************)
EXTENDS Integers, Sequences, FiniteSets, TLC

VARIABLES
    engine,          \* which engine the state under test belongs to
    init_key,        \* the key init was given
    state,           \* the Poly1305 or Hmac struct
    msg,             \* the bytes of the successful updates since the last init/reset
    straddled,       \* one of those updates began inside a block and ran past its end
    last,            \* the last call: its name, its result and the tag returned
    finalized_since, \* a finalize has returned Ok since the last init/reset
    script,          \* progress along init, update, finalize, reset, update, finalize
    resets,          \* the number of reset calls since init
    calls,           \* the process_block calls the last call made, in order
    writes,          \* the indices of the buffer the last call wrote at
    absorbed,        \* the number of process_block calls of updates since the last init/reset
    prev,            \* the result of the call before the last
    vin,             \* the inputs of a verify call
    vout             \* its result

vars == <<engine, init_key, state, msg, straddled, last, finalized_since, script, resets,
          calls, writes, absorbed, prev, vin, vout>>

\* The digit base.
D == 2 ^ 13

\* ------------------------------------------------------------ u32 / u64

\* Three raw digit sums, carried and reduced modulo 2^32.
U32(x0, x1, x2) ==
    LET t1 == x1 + (x0 \div D)
        t2 == x2 + (t1 \div D)
    IN  <<x0 % D, t1 % D, t2 % 64>>

\* Five raw digit sums, carried and reduced modulo 2^64.
U64(x0, x1, x2, x3, x4) ==
    LET t1 == x1 + (x0 \div D)
        t2 == x2 + (t1 \div D)
        t3 == x3 + (t2 \div D)
        t4 == x4 + (t3 \div D)
    IN  <<x0 % D, t1 % D, t2 % D, t3 % D, t4 % 4096>>

\* A literal below 2^31 as a u32.
Lit(n) == <<n % D, (n \div D) % D, n \div (D * D)>>

\* `x as u64` and `x as u32`.
AsU64(x) == <<x[1], x[2], x[3], 0, 0>>
AsU32(x) == <<x[1], x[2], x[3] % 64>>

\* u32 + u32 (modulo 2^32, as the release build computes it).
AddU32(x, y) == U32(x[1] + y[1], x[2] + y[2], x[3] + y[3])

\* u64 + u64.
AddU64(x, y) ==
    U64(x[1] + y[1], x[2] + y[2], x[3] + y[3], x[4] + y[4], x[5] + y[5])

\* (x as u64) * (y as u64) for u32 x, y.
MulU64(x, y) ==
    U64(x[1] * y[1],
        x[1] * y[2] + x[2] * y[1],
        x[1] * y[3] + x[2] * y[2] + x[3] * y[1],
        x[2] * y[3] + x[3] * y[2],
        x[3] * y[3])

\* u32 * 5 (modulo 2^32).
Times5(x) == U32(x[1] * 5, x[2] * 5, x[3] * 5)

\* x >> k, for a word of any width.
Shr(x, k) ==
    LET q == k \div 13
        r == k % 13
        dig(i) == IF i > Len(x) THEN 0 ELSE x[i]
    IN  [i \in 1..Len(x) |->
            (dig(i + q) \div (2 ^ r)) + (dig(i + q + 1) % (2 ^ r)) * (2 ^ (13 - r))]

\* x << k for a u32 x: the bits shifted past bit 31 are lost.
Shl32(x, k) ==
    LET q == k \div 13
        r == k % 13
        dig(i) == IF i < 1 THEN 0 ELSE x[i]
        raw(i) == (dig(i - q) % (2 ^ (13 - r))) * (2 ^ r)
                    + (dig(i - q - 1) \div (2 ^ (13 - r)))
    IN  <<raw(1), raw(2), raw(3) % 64>>

RECURSIVE AndD(_, _)
AndD(x, y) ==
    IF x = 0 \/ y = 0 THEN 0
    ELSE IF x = D - 1 THEN y
    ELSE IF y = D - 1 THEN x
    ELSE (x % 2) * (y % 2) + 2 * AndD(x \div 2, y \div 2)

RECURSIVE OrD(_, _)
OrD(x, y) ==
    IF x = 0 THEN y
    ELSE IF y = 0 THEN x
    ELSE (IF x % 2 = 1 \/ y % 2 = 1 THEN 1 ELSE 0) + 2 * OrD(x \div 2, y \div 2)

\* x & y, x | y, !x on u32.
And32(x, y) == <<AndD(x[1], y[1]), AndD(x[2], y[2]), AndD(x[3], y[3])>>
Or32(x, y) == <<OrD(x[1], y[1]), OrD(x[2], y[2]), OrD(x[3], y[3])>>
Not32(x) == <<D - 1 - x[1], D - 1 - x[2], 63 - x[3]>>

\* x.wrapping_add(y), x.wrapping_sub(y) on u32.
WrappingAdd(x, y) == AddU32(x, y)
WrappingSub(x, y) == AddU32(x, AddU32(Not32(y), Lit(1)))

\* d & 0x3ffffff on a u64.
Low26(d) == <<d[1], d[2], 0, 0, 0>>

Zero32 == <<0, 0, 0>>

\* LittleEndian::read_u32(&bytes[off..off + 4]), off counted from 0.
read_u32(bytes, off) ==
    U32(bytes[off + 1] + 256 * bytes[off + 2] + 65536 * bytes[off + 3],
        2048 * bytes[off + 4],
        0)

\* The four little-endian bytes of a u32.
write_u32(x) ==
    <<x[1] % 256,
      Shr(x, 8)[1] % 256,
      Shr(x, 16)[1] % 256,
      Shr(x, 24)[1] % 256>>

\* LittleEndian::write_u32_into(&words, &mut dst).
RECURSIVE write_u32_into(_)
write_u32_into(words) ==
    IF words = <<>> THEN <<>>
    ELSE write_u32(Head(words)) \o write_u32_into(Tail(words))

\* What three raw digit sums carry out past bit 31, and five past bit 63.
CarryOut32(x0, x1, x2) == (x2 + ((x1 + (x0 \div D)) \div D)) \div 64
CarryOut64(x0, x1, x2, x3, x4) ==
    (x4 + ((x3 + ((x2 + ((x1 + (x0 \div D)) \div D)) \div D)) \div D)) \div 4096

\* u32 + u32, u32 * 5 and u64 + u64 exceed their width (a panic of the debug
\* build, a wrap of the release build).
AddU32Overflows(x, y) == CarryOut32(x[1] + y[1], x[2] + y[2], x[3] + y[3]) # 0
Times5Overflows(x) == CarryOut32(x[1] * 5, x[2] * 5, x[3] * 5) # 0
AddU64Overflows(x, y) ==
    CarryOut64(x[1] + y[1], x[2] + y[2], x[3] + y[3], x[4] + y[4], x[5] + y[5]) # 0

\* `x as u32` drops set bits of the u64 x.
NarrowingLoses(x) == x[3] >= 64 \/ x[4] # 0 \/ x[5] # 0

\* ------------------------------------------------------------ Poly1305

POLY1305_BLOCKSIZE == 16
POLY1305_KEYSIZE == 32

Mask26 == Lit(67108863)                \* 0x3ffffff

\* initialize with the last word of the pad read from the wrong offset.
initialize_pad_misread(st, key) ==
    [st EXCEPT
        !.r = << And32(read_u32(key, 0), Lit(67108863)),
                 And32(Shr(read_u32(key, 3), 2), Lit(67108611)),
                 And32(Shr(read_u32(key, 6), 4), Lit(67092735)),
                 And32(Shr(read_u32(key, 9), 6), Lit(66076671)),
                 And32(Shr(read_u32(key, 12), 8), Lit(1048575)) >>,
        !.s = << read_u32(key, 16), read_u32(key, 20),
                 read_u32(key, 24), read_u32(key, 24) >>]

\* Poly1305::initialize: clamp r and read the pad s from the key.
initialize(st, key) ==
    [st EXCEPT
        !.r = << And32(read_u32(key, 0), Lit(67108863)),             \* 0x3ffffff
                 And32(Shr(read_u32(key, 3), 2), Lit(67108611)),     \* 0x3ffff03
                 And32(Shr(read_u32(key, 6), 4), Lit(67092735)),     \* 0x3ffc0ff
                 And32(Shr(read_u32(key, 9), 6), Lit(66076671)),     \* 0x3f03fff
                 And32(Shr(read_u32(key, 12), 8), Lit(1048575)) >>,  \* 0x00fffff
        !.s = << read_u32(key, 16), read_u32(key, 20),
                 read_u32(key, 24), read_u32(key, 28) >>]

\* A hibit that is set whatever the state.
hibit_always_set(st) == Lit(16777216)

\* The hibit of process_block, derived from is_finalized.
hibit(st) == IF st.is_finalized THEN Zero32 ELSE Lit(16777216)      \* 1 << 24

\* process_block, `h += m[i]`: the block's five 26-bit limbs are added to a.
add_block(a, data, hib) ==
    << AddU32(a[1], And32(read_u32(data, 0), Mask26)),
       AddU32(a[2], And32(Shr(read_u32(data, 3), 2), Mask26)),
       AddU32(a[3], And32(Shr(read_u32(data, 6), 4), Mask26)),
       AddU32(a[4], And32(Shr(read_u32(data, 9), 6), Mask26)),
       AddU32(a[5], Or32(Shr(read_u32(data, 12), 8), hib)) >>

\* One d_i of process_block: the sum of five u64 products.
Sum5(p0, p1, p2, p3, p4) == AddU64(AddU64(AddU64(AddU64(p0, p1), p2), p3), p4)

\* process_block, `h *= r`: d0..d4, with s_i = 5 * r_i for the wrapped terms.
mul_r(h, r0, r1, r2, r3, r4, s1, s2, s3, s4) ==
    << Sum5(MulU64(h[1], r0), MulU64(h[2], s4), MulU64(h[3], s3),
            MulU64(h[4], s2), MulU64(h[5], s1)),
       Sum5(MulU64(h[1], r1), MulU64(h[2], r0), MulU64(h[3], s4),
            MulU64(h[4], s3), MulU64(h[5], s2)),
       Sum5(MulU64(h[1], r2), MulU64(h[2], r1), MulU64(h[3], r0),
            MulU64(h[4], s4), MulU64(h[5], s3)),
       Sum5(MulU64(h[1], r3), MulU64(h[2], r2), MulU64(h[3], r1),
            MulU64(h[4], r0), MulU64(h[5], s4)),
       Sum5(MulU64(h[1], r4), MulU64(h[2], r3), MulU64(h[3], r2),
            MulU64(h[4], r1), MulU64(h[5], r0)) >>

\* `(d >> 26) as u32` and `(d & 0x3ffffff) as u32`.
CarryOf(d) == AsU32(Shr(d, 26))
LimbOf(d) == AsU32(Low26(d))

\* wrap_carry that leaves the carry in h0.
wrap_carry_no_mask(h0, h1, h2, h3, h4) == << h0, h1, h2, h3, h4 >>

\* The end of the carry chain: `h0 += c * 5; c = h0 >> 26; h0 &= 0x3ffffff;
\* h1 += c`.
wrap_carry(h0, h1, h2, h3, h4) ==
    << And32(h0, Mask26), AddU32(h1, Shr(h0, 26)), h2, h3, h4 >>

\* process_block, `(partial) h %= p`: carries d0 -> d1 -> d2 -> d3 -> d4, then
\* the top carry times 5 into h0 and its carry into h1.
carry_d(d) ==
    LET e1 == AddU64(d[2], AsU64(CarryOf(d[1])))
        e2 == AddU64(d[3], AsU64(CarryOf(e1)))
        e3 == AddU64(d[4], AsU64(CarryOf(e2)))
        e4 == AddU64(d[5], AsU64(CarryOf(e3)))
    IN  wrap_carry(AddU32(LimbOf(d[1]), Times5(CarryOf(e4))),
                   LimbOf(e1), LimbOf(e2), LimbOf(e3), LimbOf(e4))

\* process_block, the five limbs m[i] of the block that `h += m[i]` adds.
block_limbs(data, hib) ==
    << And32(read_u32(data, 0), Mask26),
       And32(Shr(read_u32(data, 3), 2), Mask26),
       And32(Shr(read_u32(data, 6), 4), Mask26),
       And32(Shr(read_u32(data, 9), 6), Mask26),
       Or32(Shr(read_u32(data, 12), 8), hib) >>

\* One of the five adds of `h += m[i]` exceeds 32 bits.
add_block_overflows(a, m) == \E i \in 1..5 : AddU32Overflows(a[i], m[i])

\* One of the four adds of a d_i exceeds 64 bits.
Sum5Overflows(p0, p1, p2, p3, p4) ==
    \/ AddU64Overflows(p0, p1)
    \/ AddU64Overflows(AddU64(p0, p1), p2)
    \/ AddU64Overflows(AddU64(AddU64(p0, p1), p2), p3)
    \/ AddU64Overflows(AddU64(AddU64(AddU64(p0, p1), p2), p3), p4)

\* One of the sums d0..d4 of `h *= r` exceeds 64 bits.
mul_r_overflows(h, r0, r1, r2, r3, r4, s1, s2, s3, s4) ==
    \/ Sum5Overflows(MulU64(h[1], r0), MulU64(h[2], s4), MulU64(h[3], s3),
                     MulU64(h[4], s2), MulU64(h[5], s1))
    \/ Sum5Overflows(MulU64(h[1], r1), MulU64(h[2], r0), MulU64(h[3], s4),
                     MulU64(h[4], s3), MulU64(h[5], s2))
    \/ Sum5Overflows(MulU64(h[1], r2), MulU64(h[2], r1), MulU64(h[3], r0),
                     MulU64(h[4], s4), MulU64(h[5], s3))
    \/ Sum5Overflows(MulU64(h[1], r3), MulU64(h[2], r2), MulU64(h[3], r1),
                     MulU64(h[4], r0), MulU64(h[5], s4))
    \/ Sum5Overflows(MulU64(h[1], r4), MulU64(h[2], r3), MulU64(h[3], r2),
                     MulU64(h[4], r1), MulU64(h[5], r0))

\* One step `d += c as u64; c = (d >> 26) as u32` of the carry chain exceeds
\* 64 bits in the add or drops bits in the narrowing.
carry_step_overflows(d, c) ==
    \/ AddU64Overflows(d, AsU64(c))
    \/ NarrowingLoses(Shr(AddU64(d, AsU64(c)), 26))

\* `h0 += c * 5; c = h0 >> 26; h1 += c` exceeds 32 bits.
wrap_carry_overflows(h0, h1, c) ==
    \/ Times5Overflows(c)
    \/ AddU32Overflows(h0, Times5(c))
    \/ AddU32Overflows(h1, Shr(AddU32(h0, Times5(c)), 26))

\* An operation of `(partial) h %= p` exceeds its width.
carry_d_overflows(d) ==
    LET e1 == AddU64(d[2], AsU64(CarryOf(d[1])))
        e2 == AddU64(d[3], AsU64(CarryOf(e1)))
        e3 == AddU64(d[4], AsU64(CarryOf(e2)))
        e4 == AddU64(d[5], AsU64(CarryOf(e3)))
    IN  \/ NarrowingLoses(Shr(d[1], 26))
        \/ carry_step_overflows(d[2], CarryOf(d[1]))
        \/ carry_step_overflows(d[3], CarryOf(e1))
        \/ carry_step_overflows(d[4], CarryOf(e2))
        \/ carry_step_overflows(d[5], CarryOf(e3))
        \/ wrap_carry_overflows(LimbOf(d[1]), LimbOf(e1), CarryOf(e4))

\* Poly1305::process_block: an operation written with +, * or `as u32`
\* exceeds its width on the accumulator a, the multiplier r and the block.
process_block_overflows(a, r, data, hib) ==
    \/ \E i \in 2..5 : Times5Overflows(r[i])
    \/ add_block_overflows(a, block_limbs(data, hib))
    \/ mul_r_overflows(add_block(a, data, hib),
                       r[1], r[2], r[3], r[4], r[5],
                       Times5(r[2]), Times5(r[3]), Times5(r[4]), Times5(r[5]))
    \/ carry_d_overflows(mul_r(add_block(a, data, hib),
                               r[1], r[2], r[3], r[4], r[5],
                               Times5(r[2]), Times5(r[3]), Times5(r[4]), Times5(r[5])))

\* Poly1305::process_block on a block of POLY1305_BLOCKSIZE bytes:
\* a <- (a + m) * r, partially reduced modulo 2^130 - 5.
process_block_ok(st, data) ==
    [st EXCEPT !.a =
        carry_d(mul_r(add_block(st.a, data, hibit(st)),
                      st.r[1], st.r[2], st.r[3], st.r[4], st.r[5],
                      Times5(st.r[2]), Times5(st.r[3]), Times5(st.r[4]),
                      Times5(st.r[5])))]

\* Poly1305::process_block: a slice of any other length is refused.
process_block(st, data) ==
    IF Len(data) # POLY1305_BLOCKSIZE
    THEN [st |-> st, res |-> "UnknownCryptoError"]
    ELSE [st |-> process_block_ok(st, data), res |-> "Ok"]

\* One call of process_block as its caller makes it: the slice passed, the
\* hibit the call derives and what it returns.
Absorbed(st, data) ==
    [data |-> data, hibit |-> hibit(st), res |-> process_block(st, data).res]

\* process_end_of_stream, `full carry h`.
full_carry(a) ==
    LET b2 == AddU32(a[3], Shr(a[2], 26))
        b3 == AddU32(a[4], Shr(b2, 26))
        b4 == AddU32(a[5], Shr(b3, 26))
    IN  wrap_carry(AddU32(a[1], Times5(Shr(b4, 26))),
                   And32(a[2], Mask26), And32(b2, Mask26), And32(b3, Mask26),
                   And32(b4, Mask26))

\* process_end_of_stream, `compute h + -p`: g = h + 5 - 2^130.
minus_p(h) ==
    LET t0 == WrappingAdd(h[1], Lit(5))
        t1 == WrappingAdd(h[2], Shr(t0, 26))
        t2 == WrappingAdd(h[3], Shr(t1, 26))
        t3 == WrappingAdd(h[4], Shr(t2, 26))
    IN  << And32(t0, Mask26), And32(t1, Mask26), And32(t2, Mask26), And32(t3, Mask26),
           WrappingSub(WrappingAdd(h[5], Shr(t3, 26)), Lit(67108864)) >>   \* 1 << 26

\* A mask that never selects g.
select_mask_never(g4) == Zero32

\* The mask of the select: all ones when the sign bit of g4 is clear.
select_mask(g4) == WrappingSub(Shr(g4, 32 - 1), Lit(1))

\* `g &= mask; mask = !mask; h = (h & mask) | g`, limb by limb.
select_limbs(h, g, mask, nmask) ==
    [i \in 1..5 |-> Or32(And32(h[i], nmask), And32(g[i], mask))]

\* process_end_of_stream, `select h if h < p, or h + -p if h >= p`.
select(h, g) == select_limbs(h, g, select_mask(g[5]), Not32(select_mask(g[5])))

\* process_end_of_stream, `h = h % (2^128)`: five limbs into four words.
pack(h) ==
    << Or32(h[1], Shl32(h[2], 26)),
       Or32(Shr(h[2], 6), Shl32(h[3], 20)),
       Or32(Shr(h[3], 12), Shl32(h[4], 14)),
       Or32(Shr(h[4], 18), Shl32(h[5], 8)) >>

\* process_end_of_stream, `mac = (h + pad) % (2^128)`.
add_pad(w, s) ==
    LET f0 == AddU64(AsU64(w[1]), AsU64(s[1]))
        f1 == AddU64(AddU64(AsU64(w[2]), AsU64(s[2])), Shr(f0, 32))
        f2 == AddU64(AddU64(AsU64(w[3]), AsU64(s[3])), Shr(f1, 32))
        f3 == AddU64(AddU64(AsU64(w[4]), AsU64(s[4])), Shr(f2, 32))
    IN  << AsU32(f0), AsU32(f1), AsU32(f2), AsU32(f3) >>

\* The fully carried h, reduced modulo 2^130 - 5.
reduce(h) == select(h, minus_p(h))

\* Poly1305::process_end_of_stream: a[0..4] becomes the MAC; a[4] is left.
process_end_of_stream(st) ==
    [st EXCEPT !.a = add_pad(pack(reduce(full_carry(st.a))), st.s) \o <<st.a[5]>>]

\* reset that forgets the leftover count.
Poly1305_reset_keeps_leftover(st) ==
    [st EXCEPT !.a = <<Zero32, Zero32, Zero32, Zero32, Zero32>>,
               !.is_finalized = FALSE,
               !.buffer = [i \in 1..POLY1305_BLOCKSIZE |-> 0]]

\* reset that clears the pad as well.
Poly1305_reset_clears_pad(st) ==
    [st EXCEPT !.a = <<Zero32, Zero32, Zero32, Zero32, Zero32>>,
               !.s = <<Zero32, Zero32, Zero32, Zero32>>,
               !.leftover = 0,
               !.is_finalized = FALSE,
               !.buffer = [i \in 1..POLY1305_BLOCKSIZE |-> 0]]

\* Drop for Poly1305: a, r, s and buffer are cleared.
Poly1305_drop(st) ==
    [st EXCEPT !.a = <<Zero32, Zero32, Zero32, Zero32, Zero32>>,
               !.r = <<Zero32, Zero32, Zero32, Zero32, Zero32>>,
               !.s = <<Zero32, Zero32, Zero32, Zero32>>,
               !.buffer = [i \in 1..POLY1305_BLOCKSIZE |-> 0]]

\* Poly1305::reset.
Poly1305_reset(st) ==
    [st EXCEPT !.a = <<Zero32, Zero32, Zero32, Zero32, Zero32>>,
               !.leftover = 0,
               !.is_finalized = FALSE,
               !.buffer = [i \in 1..POLY1305_BLOCKSIZE |-> 0]]

\* The `while bytes.len() >= POLY1305_BLOCKSIZE` loop of update, and the copy
\* of the residue into the buffer after it.
\* cs collects the process_block calls made and ws the buffer indices written.
RECURSIVE update_blocks(_, _, _, _)
update_blocks(st, bytes, cs, ws) ==
    IF Len(bytes) >= POLY1305_BLOCKSIZE
    THEN update_blocks(process_block(st, SubSeq(bytes, 1, POLY1305_BLOCKSIZE)).st,
                       SubSeq(bytes, POLY1305_BLOCKSIZE + 1, Len(bytes)),
                       Append(cs, Absorbed(st, SubSeq(bytes, 1, POLY1305_BLOCKSIZE))),
                       ws)
    ELSE [st |-> [st EXCEPT
                    !.buffer = [i \in 1..POLY1305_BLOCKSIZE |->
                                    IF i <= Len(bytes) THEN bytes[i] ELSE st.buffer[i]],
                    !.leftover = Len(bytes)],
          res |-> "Ok",
          calls |-> cs,
          writes |-> ws \cup {idx : idx \in 0..(Len(bytes) - 1)}]

\* want without its lower bound: the whole payload.
want_of_whole_payload(st, data) == Len(data)

\* `want` of update: what the buffer lacks, at most the whole payload.
want_of(st, data) ==
    IF POLY1305_BLOCKSIZE - st.leftover > Len(data)
    THEN Len(data)
    ELSE POLY1305_BLOCKSIZE - st.leftover

\* fill_buffer that copies the bytes and leaves the leftover count as it was.
fill_buffer_no_advance(st, data, want) ==
    [st EXCEPT
        !.buffer = [i \in 1..POLY1305_BLOCKSIZE |->
                       IF i > st.leftover /\ i <= st.leftover + want
                       THEN data[i - st.leftover]
                       ELSE st.buffer[i]]]

\* update, the copy of the first want bytes of data behind the leftover ones.
fill_buffer(st, data, want) ==
    [st EXCEPT
        !.buffer = [i \in 1..POLY1305_BLOCKSIZE |->
                       IF i > st.leftover /\ i <= st.leftover + want
                       THEN data[i - st.leftover]
                       ELSE st.buffer[i]],
        !.leftover = st.leftover + want]

\* update, the indices buffer[self.leftover + idx] of that copy.
fill_indices(st, want) == {st.leftover + idx : idx \in 0..(want - 1)}

\* update, after the copy: return if the buffer is not full, else absorb it
\* and go on with the rest of the payload.
after_fill(filled, bytes, ws) ==
    IF filled.leftover < POLY1305_BLOCKSIZE
    THEN [st |-> filled, res |-> "Ok", calls |-> <<>>, writes |-> ws]
    ELSE update_blocks([process_block(filled, filled.buffer).st EXCEPT !.leftover = 0],
                       bytes,
                       <<Absorbed(filled, filled.buffer)>>,
                       ws)

\* update that, once the leftover buffer is absorbed, goes on from the start of
\* data instead of from the bytes not yet consumed.
Poly1305_update_no_slice(st, data) ==
    IF st.is_finalized
    THEN [st |-> st, res |-> "Finalized", calls |-> <<>>, writes |-> {}]
    ELSE IF st.leftover # 0
    THEN after_fill(fill_buffer(st, data, want_of(st, data)), data,
                    fill_indices(st, want_of(st, data)))
    ELSE update_blocks(st, data, <<>>, {})

\* update that empties the leftover count before it fails on a finalized state.
Poly1305_update_err_drops_leftover(st, data) ==
    IF st.is_finalized
    THEN [st |-> [st EXCEPT !.leftover = 0], res |-> "Finalized",
          calls |-> <<>>, writes |-> {}]
    ELSE IF st.leftover # 0
    THEN after_fill(fill_buffer(st, data, want_of(st, data)),
                    SubSeq(data, want_of(st, data) + 1, Len(data)),
                    fill_indices(st, want_of(st, data)))
    ELSE update_blocks(st, data, <<>>, {})

\* Poly1305::update.
Poly1305_update(st, data) ==
    IF st.is_finalized
    THEN [st |-> st, res |-> "Finalized", calls |-> <<>>, writes |-> {}]
    ELSE IF st.leftover # 0
    THEN after_fill(fill_buffer(st, data, want_of(st, data)),
                    SubSeq(data, want_of(st, data) + 1, Len(data)),
                    fill_indices(st, want_of(st, data)))
    ELSE update_blocks(st, data, <<>>, {})

\* finalize, the last block: the leftover bytes, a 1 and zeroes.
local_buffer(st) ==
    [i \in 1..POLY1305_BLOCKSIZE |->
        IF i <= st.leftover THEN st.buffer[i]
        ELSE IF i = st.leftover + 1 THEN 1
        ELSE 0]

\* finish that absorbs the padded buffer even when nothing is left over.
finish_always_block(fin) ==
    [st |-> process_end_of_stream(process_block(fin, local_buffer(fin)).st),
     calls |-> <<Absorbed(fin, local_buffer(fin))>>,
     writes |-> {fin.leftover} \cup {i : i \in (fin.leftover + 1)..(POLY1305_BLOCKSIZE - 1)}]

\* finalize, once is_finalized is set: the last block if there is one, then
\* process_end_of_stream.
finish(fin) ==
    IF fin.leftover # 0
    THEN [st |-> process_end_of_stream(process_block(fin, local_buffer(fin)).st),
          calls |-> <<Absorbed(fin, local_buffer(fin))>>,
          writes |-> {fin.leftover} \cup {i : i \in (fin.leftover + 1)..(POLY1305_BLOCKSIZE - 1)}]
    ELSE [st |-> process_end_of_stream(fin), calls |-> <<>>, writes |-> {}]

\* finalize, `Get tag`: the state and the tag written from a[0..4].
tagged(done) ==
    [st |-> done.st, res |-> "Ok", tag |-> write_u32_into(SubSeq(done.st.a, 1, 4)),
     calls |-> done.calls, writes |-> done.writes]

\* Poly1305::finalize.
Poly1305_finalize(st) ==
    IF st.is_finalized
    THEN [st |-> st, res |-> "Finalized", tag |-> <<>>, calls |-> <<>>, writes |-> {}]
    ELSE tagged(finish([st EXCEPT !.is_finalized = TRUE]))

\* poly1305::init.
poly1305_init(one_time_key) ==
    initialize([a |-> <<Zero32, Zero32, Zero32, Zero32, Zero32>>,
                r |-> <<Zero32, Zero32, Zero32, Zero32, Zero32>>,
                s |-> <<Zero32, Zero32, Zero32, Zero32>>,
                leftover |-> 0,
                buffer |-> [i \in 1..POLY1305_BLOCKSIZE |-> 0],
                is_finalized |-> FALSE],
               one_time_key)

\* `.unwrap()` of a finalize result: the tag, or a panic.
unwrap_finalize(fin) ==
    IF fin.res = "Ok" THEN [res |-> "Ok", tag |-> fin.tag]
    ELSE [res |-> "panic", tag |-> <<>>]

\* `.unwrap()` of an update result, then finalize on the state.
Poly1305_unwrap_update(upd) ==
    IF upd.res = "Ok" THEN unwrap_finalize(Poly1305_finalize(upd.st))
    ELSE [res |-> "panic", tag |-> <<>>]

\* poly1305::poly1305, the one-shot function.
poly1305(one_time_key, data) ==
    Poly1305_unwrap_update(Poly1305_update(poly1305_init(one_time_key), data))

\* Tag's PartialEq: every byte of the two tags is compared.
Poly1305_Tag_eq(x, y) ==
    /\ Len(x) = Len(y)
    /\ \A i \in 1..Len(x) : x[i] = y[i]

\* verify that reports a mismatch as the value false.
poly1305_verify_false(expected, one_time_key, data) ==
    IF Poly1305_Tag_eq(poly1305(one_time_key, data).tag, expected)
    THEN "Ok(true)"
    ELSE "Ok(false)"

\* verify, the comparison of the recomputed tag with the expected one.
Poly1305_compare(mac, expected) ==
    IF mac.res # "Ok" THEN "panic"
    ELSE IF Poly1305_Tag_eq(mac.tag, expected) THEN "Ok(true)"
    ELSE "Err(ValidationCryptoError)"

\* poly1305::verify.
poly1305_verify(expected, one_time_key, data) ==
    Poly1305_compare(poly1305(one_time_key, data), expected)

\* ------------------------------------------------------------ HMAC-SHA512

SHA2_BLOCKSIZE == 128

RECURSIVE XorD(_, _)
XorD(x, y) ==
    IF x = 0 THEN y
    ELSE IF y = 0 THEN x
    ELSE ((x + y) % 2) + 2 * XorD(x \div 2, y \div 2)

\* SHA-512 is an external collaborator.  A hasher is the sequence of what it
\* has been fed; its result is a value that determines that sequence (no two
\* inputs share a digest).  flip is the set of bit positions at which a value
\* differs from the digest as computed: empty for every result.
Sha512_default == <<>>
Sha512_input(hasher, bytes) == hasher \o bytes
Sha512_result(hasher) == [sha512 |-> hasher, flip |-> {}]

\* SecretKey::from_slice: the key bytes, padded with zeroes to SHA2_BLOCKSIZE.
SecretKey_from_slice(slice) ==
    [i \in 1..SHA2_BLOCKSIZE |-> IF i <= Len(slice) THEN slice[i] ELSE 0]

\* pad_key_io that feeds the two pads to the wrong hashers.
pad_key_io_swapped(st, key) ==
    LET ipad == [i \in 1..SHA2_BLOCKSIZE |-> XorD(st.ipad[i], key[i])]
        opad == [i \in 1..SHA2_BLOCKSIZE |-> XorD(92, key[i])]
    IN  [st EXCEPT !.ipad = ipad,
                   !.ipad_hasher = Sha512_input(st.ipad_hasher, opad),
                   !.opad_hasher = Sha512_input(st.opad_hasher, ipad)]

\* Hmac::pad_key_io.
pad_key_io(st, key) ==
    LET ipad == [i \in 1..SHA2_BLOCKSIZE |-> XorD(st.ipad[i], key[i])]
        opad == [i \in 1..SHA2_BLOCKSIZE |-> XorD(92, key[i])]            \* 0x5C
    IN  [st EXCEPT !.ipad = ipad,
                   !.ipad_hasher = Sha512_input(st.ipad_hasher, ipad),
                   !.opad_hasher = Sha512_input(st.opad_hasher, opad)]

\* Drop for Hmac: ipad is cleared.
Hmac_drop(st) == [st EXCEPT !.ipad = [i \in 1..SHA2_BLOCKSIZE |-> 0]]

\* Hmac::reset.
Hmac_reset(st) ==
    [st EXCEPT !.ipad_hasher = Sha512_input(st.ipad_hasher, st.ipad),
               !.is_finalized = FALSE]

\* update that accepts an empty slice before it looks at is_finalized.
Hmac_update_empty_first(st, data) ==
    IF Len(data) = 0 THEN [st |-> st, res |-> "Ok"]
    ELSE IF st.is_finalized THEN [st |-> st, res |-> "Finalized"]
    ELSE [st |-> [st EXCEPT !.ipad_hasher = Sha512_input(st.ipad_hasher, data)],
          res |-> "Ok"]

\* Hmac::update.
Hmac_update(st, data) ==
    IF st.is_finalized
    THEN [st |-> st, res |-> "Finalized"]
    ELSE [st |-> [st EXCEPT !.ipad_hasher = Sha512_input(st.ipad_hasher, data)],
          res |-> "Ok"]

\* finalize that does not set is_finalized.
Hmac_finalize_stays_open(st) ==
    IF st.is_finalized
    THEN [st |-> st, res |-> "Finalized", tag |-> <<>>]
    ELSE LET hash_ires == st.ipad_hasher
             o_hash == Sha512_input(st.opad_hasher, <<Sha512_result(hash_ires)>>)
         IN  [st |-> [st EXCEPT !.ipad_hasher = Sha512_default],
              res |-> "Ok",
              tag |-> Sha512_result(o_hash)]

\* finalize that reads the inner digest without taking the inner hasher out.
Hmac_finalize_keeps_inner(st) ==
    IF st.is_finalized
    THEN [st |-> st, res |-> "Finalized", tag |-> <<>>]
    ELSE LET hash_ires == st.ipad_hasher
             o_hash == Sha512_input(st.opad_hasher, <<Sha512_result(hash_ires)>>)
         IN  [st |-> [st EXCEPT !.is_finalized = TRUE],
              res |-> "Ok",
              tag |-> Sha512_result(o_hash)]

\* finalize that feeds the inner digest to the outer hasher itself.
Hmac_finalize_feeds_outer(st) ==
    IF st.is_finalized
    THEN [st |-> st, res |-> "Finalized", tag |-> <<>>]
    ELSE LET hash_ires == st.ipad_hasher
             o_hash == Sha512_input(st.opad_hasher, <<Sha512_result(hash_ires)>>)
         IN  [st |-> [st EXCEPT !.is_finalized = TRUE,
                                !.ipad_hasher = Sha512_default,
                                !.opad_hasher = o_hash],
              res |-> "Ok",
              tag |-> Sha512_result(o_hash)]

\* Hmac::finalize.
Hmac_finalize(st) ==
    IF st.is_finalized
    THEN [st |-> st, res |-> "Finalized", tag |-> <<>>]
    ELSE LET hash_ires == st.ipad_hasher
             o_hash == Sha512_input(st.opad_hasher, <<Sha512_result(hash_ires)>>)
         IN  [st |-> [st EXCEPT !.is_finalized = TRUE,
                                !.ipad_hasher = Sha512_default],
              res |-> "Ok",
              tag |-> Sha512_result(o_hash)]

\* hmac::init.
hmac_init(secret_key) ==
    pad_key_io([ipad |-> [i \in 1..SHA2_BLOCKSIZE |-> 54],                  \* 0x36
                opad_hasher |-> Sha512_default,
                ipad_hasher |-> Sha512_default,
                is_finalized |-> FALSE],
               secret_key)

\* `.unwrap()` of an update result, then finalize on the state.
Hmac_unwrap_update(upd) ==
    IF upd.res = "Ok" THEN unwrap_finalize(Hmac_finalize(upd.st))
    ELSE [res |-> "panic", tag |-> <<>>]

\* hmac::hmac, the one-shot function.
hmac(secret_key, data) ==
    Hmac_unwrap_update(Hmac_update(hmac_init(secret_key), data))

\* Tag's PartialEq: the two 64-byte values are compared as a whole.
Hmac_Tag_eq(x, y) == x.sha512 = y.sha512 /\ x.flip = y.flip

\* verify, the comparison of the expected tag with the recomputed one.
Hmac_compare(expected, mac) ==
    IF mac.res # "Ok" THEN "panic"
    ELSE IF Hmac_Tag_eq(expected, mac.tag) THEN "Ok(true)"
    ELSE "Err(ValidationCryptoError)"

\* verify that recomputes the tag without feeding the data.
hmac_verify_skips_update(expected, secret_key, data) ==
    Hmac_compare(expected, unwrap_finalize(Hmac_finalize(hmac_init(secret_key))))

\* hmac::verify.
hmac_verify(expected, secret_key, data) ==
    Hmac_compare(expected,
                 Hmac_unwrap_update(Hmac_update(hmac_init(secret_key), data)))

\* ------------------------------------------------------------ inputs

\* The longest message fed to a Poly1305 state and the most resets of one state.
MaxLen == 33
MaxResets == 2

\* The lengths of the update payloads.  Poly1305: empty, within a block, up
\* to a block boundary, one block, one block and a byte, two blocks.
Poly1305ChunkLens == {0, 1, 15, 16, 17, 32}
HmacChunkLens == {0, 2, 3}
ChunkLens == IF engine = "poly1305" THEN Poly1305ChunkLens ELSE HmacChunkLens

Take(m, n) == SubSeq(m, 1, IF Len(m) < n THEN Len(m) ELSE n)

\* The key and message of RFC 8439 section 2.5.2.
RfcKey == <<133, 214, 190, 120, 87, 85, 109, 51, 127, 68, 82, 254, 66, 213, 6, 168,
            1, 3, 128, 138, 251, 13, 178, 253, 74, 191, 246, 175, 65, 73, 245, 27>>
RfcMsg == <<67, 114, 121, 112, 116, 111, 103, 114, 97, 112, 104, 105, 99, 32, 70, 111,
            114, 117, 109, 32, 82, 101, 115, 101, 97, 114, 99, 104, 32, 71, 114, 111,
            117, 112>>

Poly1305Keys ==
    { [i \in 1..POLY1305_KEYSIZE |-> 0],
      RfcKey,
      [i \in 1..POLY1305_KEYSIZE |-> 255] }

HmacKeys ==
    { SecretKey_from_slice(<<74, 101, 102, 101>>),      \* "Jefe"
      SecretKey_from_slice(<<74, 111, 115, 101>>) }     \* "Jose"

Poly1305Msgs ==
    { Take(RfcMsg, MaxLen),
      [i \in 1..MaxLen |-> 255],
      [i \in 1..MaxLen |-> 0] }

HmacMsgs ==
    { <<84, 101, 115, 116, 115>>,                       \* "Tests"
      <<119, 104, 97, 116>> }                           \* "what"

Msgs == IF engine = "poly1305" THEN Poly1305Msgs ELSE HmacMsgs

IsPrefix(p, m) == Len(p) <= Len(m) /\ SubSeq(m, 1, Len(p)) = p

\* The payloads a caller may pass to the next update: the next n bytes of a
\* message that starts with what has been fed so far.
NextData ==
    { SubSeq(m, Len(msg) + 1, Len(msg) + n) :
        <<m, n>> \in { x \in Msgs \X ChunkLens :
                          IsPrefix(msg, x[1]) /\ Len(msg) + x[2] <= Len(x[1]) } }

NoTag == <<>>
NoVerify == [phase |-> "none"]

\* ------------------------------------------------------------ the state machine

\* The script init, update(X), finalize, reset, update(Y), finalize: position
\* n after its first n calls, 6 once the calls have left it.
ScriptNext(op, res) ==
    IF script = 0 /\ op = "update" /\ res = "Ok" THEN 1
    ELSE IF script = 1 /\ op = "finalize" /\ res = "Ok" THEN 2
    ELSE IF script = 2 /\ op = "reset" THEN 3
    ELSE IF script = 3 /\ op = "update" /\ res = "Ok" THEN 4
    ELSE IF script = 4 /\ op = "finalize" /\ res = "Ok" THEN 5
    ELSE 6

\* A payload of n bytes after done bytes begins inside a block and ends past it.
Straddles(done, n) ==
    /\ done % POLY1305_BLOCKSIZE # 0
    /\ (done % POLY1305_BLOCKSIZE) + n > POLY1305_BLOCKSIZE

\* The record of a call: its name, its result, the tag it returned, the
\* length of its payload, and what held when it was made: whether a finalize
\* had succeeded since the last init/reset, and how many bytes had been fed.
Call(op, res, tag, len) ==
    [op |-> op, res |-> res, tag |-> tag, len |-> len,
     was_finalized |-> finalized_since, had |-> Len(msg)]

Init ==
    /\ engine \in {"poly1305", "hmac"}
    /\ init_key \in IF engine = "poly1305" THEN Poly1305Keys ELSE HmacKeys
    /\ state = IF engine = "poly1305" THEN poly1305_init(init_key) ELSE hmac_init(init_key)
    /\ msg = <<>>
    /\ straddled = FALSE
    /\ last = [op |-> "init", res |-> "Ok", tag |-> NoTag, len |-> 0,
               was_finalized |-> FALSE, had |-> 0]
    /\ finalized_since = FALSE
    /\ script = 0
    /\ resets = 0
    /\ calls = <<>>
    /\ writes = {}
    /\ absorbed = 0
    /\ prev = "none"
    /\ vin = NoVerify
    /\ vout = "none"

\* The bookkeeping of an update call that returned r.
Updated(r, data) ==
    /\ state' = r.st
    /\ last' = Call("update", r.res, NoTag, Len(data))
    /\ msg' = IF r.res = "Ok" THEN msg \o data ELSE msg
    /\ straddled' = (straddled \/ (r.res = "Ok" /\ Straddles(Len(msg), Len(data))))
    /\ script' = ScriptNext("update", r.res)
    /\ calls' = (IF engine = "poly1305" THEN r.calls ELSE <<>>)
    /\ writes' = (IF engine = "poly1305" THEN r.writes ELSE {})
    /\ absorbed' = absorbed + (IF engine = "poly1305" THEN Len(r.calls) ELSE 0)
    /\ prev' = last.res
    /\ UNCHANGED <<engine, init_key, finalized_since, resets, vin, vout>>

\* The bookkeeping of a finalize call that returned r.
Finalized(r) ==
    /\ state' = r.st
    /\ last' = Call("finalize", r.res, r.tag, 0)
    /\ finalized_since' = (finalized_since \/ r.res = "Ok")
    /\ script' = ScriptNext("finalize", r.res)
    /\ calls' = (IF engine = "poly1305" THEN r.calls ELSE <<>>)
    /\ writes' = (IF engine = "poly1305" THEN r.writes ELSE {})
    /\ prev' = last.res
    /\ UNCHANGED <<engine, init_key, msg, straddled, resets, absorbed, vin, vout>>

\* The bookkeeping of a reset call that left the state s.
WasReset(s) ==
    /\ state' = s
    /\ last' = Call("reset", "Ok", NoTag, 0)
    /\ msg' = <<>>
    /\ straddled' = FALSE
    /\ finalized_since' = FALSE
    /\ script' = ScriptNext("reset", "Ok")
    /\ resets' = resets + 1
    /\ calls' = <<>>
    /\ writes' = {}
    /\ absorbed' = 0
    /\ prev' = last.res
    /\ UNCHANGED <<engine, init_key, vin, vout>>

Poly1305Update ==
    /\ engine = "poly1305"
    /\ vin = NoVerify
    /\ \E data \in NextData : Updated(Poly1305_update(state, data), data)

Poly1305Finalize ==
    /\ engine = "poly1305"
    /\ vin = NoVerify
    /\ Finalized(Poly1305_finalize(state))

Poly1305Reset ==
    /\ engine = "poly1305"
    /\ vin = NoVerify
    /\ resets < MaxResets
    /\ WasReset(Poly1305_reset(state))

HmacUpdate ==
    /\ engine = "hmac"
    /\ vin = NoVerify
    /\ \E data \in NextData : Updated(Hmac_update(state, data), data)

HmacFinalize ==
    /\ engine = "hmac"
    /\ vin = NoVerify
    /\ Finalized(Hmac_finalize(state))

HmacReset ==
    /\ engine = "hmac"
    /\ vin = NoVerify
    /\ resets < MaxResets
    /\ WasReset(Hmac_reset(state))

Next ==
    \/ Poly1305Update
    \/ Poly1305Finalize
    \/ Poly1305Reset
    \/ HmacUpdate
    \/ HmacFinalize
    \/ HmacReset

Spec == Init /\ [][Next]_vars

\* ------------------------------------------------------------ verify

\* bytes with bit b of byte i (both counted from 0) inverted.
FlipBit(bytes, i, b) == [bytes EXCEPT ![i + 1] = XorD(@, 2 ^ b)]

\* The bits inverted in a tag, a key or a message.
FlipBits == IF engine = "poly1305" THEN 0..7 ELSE {0, 7}

\* The message lengths of the verify calls.
VerifyLens ==
    IF engine = "poly1305"
    THEN {0, 1, POLY1305_BLOCKSIZE, POLY1305_BLOCKSIZE + 1, MaxLen}
    ELSE {0, 4}

\* The tag of data under k: of the one-shot function, or of init, update,
\* finalize.
Mac(eng, k, data, how) ==
    IF eng = "poly1305"
    THEN IF how = "oneshot" THEN poly1305(k, data).tag
         ELSE Poly1305_finalize(Poly1305_update(poly1305_init(k), data).st).tag
    ELSE IF how = "oneshot" THEN hmac(k, data).tag
         ELSE Hmac_finalize(Hmac_update(hmac_init(k), data).st).tag

\* A tag with bit b of byte i inverted.
FlipTag(eng, tag, i, b) ==
    IF eng = "poly1305" THEN FlipBit(tag, i, b)
    ELSE [tag EXCEPT !.flip = {8 * i + b}]

HLEN == 64

TagLen(eng) == IF eng = "poly1305" THEN POLY1305_BLOCKSIZE ELSE HLEN

\* Where one bit of what verify is given may be inverted: nowhere, in the
\* tag, in the key or in the message, at byte i and bit b.
Mutations(eng, k, data) ==
    {<<"none", 0, 0>>}
        \cup ({"tag"} \X (0..(TagLen(eng) - 1)) \X FlipBits)
        \cup ({"key"} \X (0..(Len(k) - 1)) \X FlipBits)
        \cup ({"data"} \X (0..(Len(data) - 1)) \X FlipBits)

\* What verify is given.
Expected == IF vin.mut = "tag" THEN FlipTag(engine, vin.tag, vin.byte, vin.bit)
            ELSE vin.tag
VKey == IF vin.mut = "key" THEN FlipBit(vin.key, vin.byte, vin.bit) ELSE vin.key
VData == IF vin.mut = "data" THEN FlipBit(vin.data, vin.byte, vin.bit) ELSE vin.data

VerifyInit ==
    /\ engine \in {"poly1305", "hmac"}
    /\ init_key \in IF engine = "poly1305" THEN Poly1305Keys ELSE HmacKeys
    /\ \E m \in Msgs, n \in VerifyLens, h \in {"oneshot", "stream"} :
         \E mu \in Mutations(engine, init_key, Take(m, n)) :
            /\ h = "stream" => mu[1] = "none"
            /\ vin = [phase |-> "input", key |-> init_key, data |-> Take(m, n),
                      how |-> h, mut |-> mu[1], byte |-> mu[2], bit |-> mu[3],
                      tag |-> NoTag]
    /\ vout = "none"
    /\ state = IF engine = "poly1305" THEN poly1305_init(init_key) ELSE hmac_init(init_key)
    /\ msg = <<>>
    /\ straddled = FALSE
    /\ last = [op |-> "init", res |-> "Ok", tag |-> NoTag, len |-> 0,
               was_finalized |-> FALSE, had |-> 0]
    /\ finalized_since = FALSE
    /\ script = 0
    /\ resets = 0
    /\ calls = <<>>
    /\ writes = {}
    /\ absorbed = 0
    /\ prev = "none"

\* The tag is computed.
ComputeMac ==
    /\ vin # NoVerify
    /\ vin.phase = "input"
    /\ vin' = [vin EXCEPT !.phase = "call",
                          !.tag = Mac(engine, vin.key, vin.data, vin.how)]
    /\ UNCHANGED <<engine, init_key, state, msg, straddled, last, finalized_since,
                   script, resets, calls, writes, absorbed, prev, vout>>

Poly1305Verify ==
    /\ engine = "poly1305"
    /\ vin # NoVerify
    /\ vin.phase = "call"
    /\ vin' = [vin EXCEPT !.phase = "done"]
    /\ vout' = poly1305_verify(Expected, VKey, VData)
    /\ UNCHANGED <<engine, init_key, state, msg, straddled, last, finalized_since,
                   script, resets, calls, writes, absorbed, prev>>

HmacVerify ==
    /\ engine = "hmac"
    /\ vin # NoVerify
    /\ vin.phase = "call"
    /\ vin' = [vin EXCEPT !.phase = "done"]
    /\ vout' = hmac_verify(Expected, VKey, VData)
    /\ UNCHANGED <<engine, init_key, state, msg, straddled, last, finalized_since,
                   script, resets, calls, writes, absorbed, prev>>

VerifyNext ==
    \/ ComputeMac
    \/ Poly1305Verify
    \/ HmacVerify

SpecVerify == VerifyInit /\ [][VerifyNext]_vars

\* ------------------------------------------------------------ the final reduction

\* The values of a limb at the edges of its range: 0, 1, 2^26 - 6, 2^26 - 5
\* and 2^26 - 1; and those of a[1] above it, whose slack is the carry out of
\* h0 that process_block adds last.
LimbEdge == {Lit(0), Lit(1), Lit(67108858), Lit(67108859), Lit(67108863)}
SlackEdge == {Lit(67108864), Lit(67108927)}

\* An accumulator as process_block leaves it and a pad, before finalize calls
\* process_end_of_stream.
ReduceInit ==
    /\ engine = "poly1305"
    /\ init_key \in Poly1305Keys
    /\ \E h0 \in LimbEdge, h1 \in LimbEdge \cup SlackEdge, h2 \in LimbEdge :
         \E h3 \in LimbEdge, h4 \in LimbEdge :
            state = [poly1305_init(init_key) EXCEPT !.a = <<h0, h1, h2, h3, h4>>,
                                                    !.is_finalized = TRUE]
    /\ vin = [phase |-> "reduce"]
    /\ vout = "none"
    /\ msg = <<>>
    /\ straddled = FALSE
    /\ last = [op |-> "init", res |-> "Ok", tag |-> NoTag, len |-> 0,
               was_finalized |-> FALSE, had |-> 0]
    /\ finalized_since = FALSE
    /\ script = 0
    /\ resets = 0
    /\ calls = <<>>
    /\ writes = {}
    /\ absorbed = 0
    /\ prev = "none"

\* finalize calls process_end_of_stream.
ProcessEndOfStream ==
    /\ vin.phase = "reduce"
    /\ state' = process_end_of_stream(state)
    /\ vin' = [phase |-> "reduced", a |-> state.a]
    /\ UNCHANGED <<engine, init_key, msg, straddled, last, finalized_since,
                   script, resets, calls, writes, absorbed, prev, vout>>

ReduceNext == ProcessEndOfStream

SpecReduce == ReduceInit /\ [][ReduceNext]_vars

\* ------------------------------------------------------------ destruction

\* The bookkeeping of a drop that left the fields s: no call follows.
Dropped(s) ==
    /\ state' = s
    /\ last' = Call("drop", "Ok", NoTag, 0)
    /\ prev' = last.res
    /\ vin' = [phase |-> "dropped"]
    /\ UNCHANGED <<engine, init_key, msg, straddled, finalized_since, script, resets,
                   calls, writes, absorbed, vout>>

Poly1305Drop ==
    /\ engine = "poly1305"
    /\ vin = NoVerify
    /\ Dropped(Poly1305_drop(state))

HmacDrop ==
    /\ engine = "hmac"
    /\ vin = NoVerify
    /\ Dropped(Hmac_drop(state))

\* The calls of the state machine, and the drop of the state at any point.
DropNext ==
    \/ Poly1305Update
    \/ Poly1305Finalize
    \/ Poly1305Reset
    \/ HmacUpdate
    \/ HmacFinalize
    \/ HmacReset
    \/ Poly1305Drop
    \/ HmacDrop

SpecDrop == Init /\ [][DropNext]_vars

\* ------------------------------------------------------------ one block

\* The limbs on entry of process_block: a[0], a[2], a[3], a[4] at the edges of
\* [0, 2^26), a[1] at those of [0, 2^27).
EntryLimb == {Lit(0), Lit(1), Lit(67108863)}
EntrySlack == {Lit(0), Lit(67108863), Lit(67108864), Lit(134217727)}

\* The blocks: zeroes, the first block of the message of RFC 8439, 0xff bytes.
Blocks ==
    { [i \in 1..POLY1305_BLOCKSIZE |-> 0],
      SubSeq(RfcMsg, 1, POLY1305_BLOCKSIZE),
      [i \in 1..POLY1305_BLOCKSIZE |-> 255] }

\* A state as init and earlier blocks leave it, about to absorb a block in
\* update (is_finalized clear) or in finalize (set).
BlockInit ==
    /\ engine = "poly1305"
    /\ init_key \in Poly1305Keys
    /\ \E h0 \in EntryLimb, h1 \in EntrySlack, h2 \in EntryLimb :
         \E h3 \in EntryLimb, h4 \in EntryLimb, fin \in BOOLEAN :
            state = [poly1305_init(init_key) EXCEPT !.a = <<h0, h1, h2, h3, h4>>,
                                                    !.is_finalized = fin]
    /\ \E block \in Blocks : vin = [phase |-> "block", block |-> block]
    /\ vout = "none"
    /\ msg = <<>>
    /\ straddled = FALSE
    /\ last = [op |-> "init", res |-> "Ok", tag |-> NoTag, len |-> 0,
               was_finalized |-> FALSE, had |-> 0]
    /\ finalized_since = FALSE
    /\ script = 0
    /\ resets = 0
    /\ calls = <<>>
    /\ writes = {}
    /\ absorbed = 0
    /\ prev = "none"

\* update or finalize calls process_block.
ProcessBlock ==
    /\ vin.phase = "block"
    /\ state' = process_block(state, vin.block).st
    /\ vout' = process_block(state, vin.block).res
    /\ vin' = [phase |-> "absorbed", block |-> vin.block, a |-> state.a]
    /\ UNCHANGED <<engine, init_key, msg, straddled, last, finalized_since,
                   script, resets, calls, writes, absorbed, prev>>

BlockNext == ProcessBlock

SpecBlock == BlockInit /\ [][BlockNext]_vars

\* ------------------------------------------------------------ properties

Done == vin.phase = "done"

FinalizedOk == last.op = "finalize" /\ last.res = "Ok"

\* The tag of init(K), update(M), finalize() on a fresh state.
FreshTag(k, m) == Mac(engine, k, m, "stream")

\* finalize applied to the state as it is.
FinalizeNow ==
    IF engine = "poly1305" THEN Poly1305_finalize(state) ELSE Hmac_finalize(state)

\* C1: Poly1305 streaming equals one-shot.  Whatever the parts in which the
\* bytes were fed to a state since init, a successful finalize returns the tag
\* of the one-shot function on their concatenation, which is also the tag of
\* init, one update with the concatenation, finalize.
C1_StreamingEqualsOneShot ==
    (engine = "poly1305" /\ resets = 0 /\ FinalizedOk)
        => /\ poly1305(init_key, msg).res = "Ok"
           /\ last.tag = poly1305(init_key, msg).tag
           /\ last.tag = FreshTag(init_key, msg)

C1_Witness ==
    /\ engine = "poly1305" /\ resets = 0 /\ FinalizedOk
    /\ init_key = RfcKey
    /\ straddled
    /\ Len(msg) = MaxLen

\* C2: single-use finalization, both engines.  A finalize call returns Ok
\* exactly when no finalize has returned Ok since the last init/reset, and
\* fails with Finalized otherwise.
C2_SingleUseFinalize ==
    last.op = "finalize"
        => last.res = (IF last.was_finalized THEN "Finalized" ELSE "Ok")

C2_Witness ==
    /\ last.op = "finalize" /\ last.res = "Finalized"
    /\ resets > 0

\* C3: update after finalize, both engines.  An update call fails with
\* Finalized exactly when a finalize has returned Ok since the last init/reset,
\* whatever its payload, the empty one included; and after such a failure a
\* finalize still fails.
C3_UpdateAfterFinalize ==
    last.op = "update"
        => /\ last.res = (IF last.was_finalized THEN "Finalized" ELSE "Ok")
           /\ last.res = "Finalized" => FinalizeNow.res = "Finalized"

C3_Witness ==
    /\ last.op = "update" /\ last.res = "Finalized"
    /\ last.len = 0
    /\ resets > 0

\* C4: HMAC reset returns the state to the init state: after any calls and
\* then reset, every field of the Hmac state equals that of hmac::init with
\* the same key.
C4_HmacResetIsInit ==
    (engine = "hmac" /\ last.op = "reset") => state = hmac_init(init_key)

\* C5: HMAC reset is idempotent: a reset right after a reset leaves the state
\* as it was.
C5_HmacResetIdempotent ==
    [][(HmacReset /\ last.op = "reset") => state' = state]_vars

\* C6: reset then reuse gives the fresh tag, both engines.  The second tag of
\* init(K), update(X), finalize(), reset(), update(Y), finalize() is the tag
\* of init(K), update(Y), finalize() on a fresh state.
C6_ResetReuseFreshTag ==
    script = 5 => last.tag = FreshTag(init_key, msg)

C6_Witness ==
    /\ script = 5
    /\ engine = "hmac"
    /\ Len(msg) > 0

\* C7: Poly1305 reset returns the state to the init state.  Right after a
\* reset every field equals that of poly1305::init with the same key, and a
\* finalize that succeeds after a reset returns the tag of the bytes fed since.
C7_Poly1305ResetIsInit ==
    engine = "poly1305"
        => /\ last.op = "reset" => state = poly1305_init(init_key)
           /\ (resets > 0 /\ FinalizedOk) => last.tag = poly1305(init_key, msg).tag

C7_Witness ==
    /\ engine = "poly1305"
    /\ init_key = RfcKey
    /\ last.op = "reset"
    /\ last.was_finalized
    /\ last.had % POLY1305_BLOCKSIZE # 0

\* C8: verify round trip, both engines.  verify given the tag of M under K,
\* of the one-shot function or of init, update, finalize, together with K and
\* M, returns Ok(true).
C8_VerifyRoundTrip ==
    (Done /\ vin.mut = "none") => vout = "Ok(true)"

C8_Witness ==
    /\ Done /\ vin.mut = "none"
    /\ vin.how = "stream"
    /\ Len(vin.data) = MaxLen
    /\ vout = "Ok(true)"

\* C9: verify never returns false, both engines.  verify returns Ok(true)
\* exactly when the expected tag is the recomputed one and the error otherwise,
\* never Ok(false); a tag with one bit inverted gets the error.
C9_VerifyNeverFalse ==
    Done => /\ vout \in {"Ok(true)", "Err(ValidationCryptoError)"}
            /\ vout = "Ok(true)" <=> Expected = Mac(engine, VKey, VData, "oneshot")
            /\ vin.mut = "tag" => vout = "Err(ValidationCryptoError)"

C9_Witness ==
    /\ Done /\ vin.mut = "tag"
    /\ vout = "Err(ValidationCryptoError)"

\* The bits of the key that the clamp of r masks out.
ClampedBit(i, b) ==
    \/ i \in {3, 7, 11, 15} /\ b >= 4
    \/ i \in {4, 8, 12} /\ b <= 1

\* C10 as stated: verify rejects every single-bit mutation of the message and
\* every single-bit mutation of the key.
C10_Sensitivity ==
    (Done /\ engine = "poly1305" /\ vin.mut \in {"key", "data"})
        => vout = "Err(ValidationCryptoError)"

\* C10, amended: verify rejects every single-bit mutation of the pad half of
\* the key (bytes 16..31).  A mutation of the message or of the r half of the
\* key is rejected exactly when it changes the recomputed tag, which no
\* mutation of a clamped bit of r does, no mutation of r does for the empty
\* message, and no mutation of the message does when r is zero.
C10_SensitivityAmended ==
    (Done /\ engine = "poly1305" /\ vin.mut \in {"key", "data"})
        => /\ (vin.mut = "key" /\ vin.byte >= 16)
                => vout = "Err(ValidationCryptoError)"
           /\ vout = "Err(ValidationCryptoError)"
                <=> poly1305(VKey, VData).tag # vin.tag
           /\ (vin.mut = "key" /\ vin.byte < 16 /\ ClampedBit(vin.byte, vin.bit))
                => vout = "Ok(true)"
           /\ (vin.mut = "key" /\ vin.byte < 16 /\ vin.data = <<>>)
                => vout = "Ok(true)"
           /\ (vin.mut = "data"
                 /\ poly1305_init(vin.key).r = <<Zero32, Zero32, Zero32, Zero32, Zero32>>)
                => vout = "Ok(true)"

C10_Witness ==
    /\ Done /\ engine = "poly1305"
    /\ vin.mut = "key" /\ vin.byte >= 16
    /\ Len(vin.data) > POLY1305_BLOCKSIZE
    /\ vout = "Err(ValidationCryptoError)"

\* C11: Poly1305 finalize from Fresh.  A finalize on a state that was given no
\* byte since init/reset (no update, or empty updates only) and was not
\* finalized succeeds, calls process_block not once, and returns the pad: key
\* bytes 16..32 as they are, 16 zero bytes for the all-zero key.
C11_FinalizeFromFresh ==
    (engine = "poly1305" /\ last.op = "finalize" /\ ~last.was_finalized /\ msg = <<>>)
        => /\ last.res = "Ok"
           /\ calls = <<>>
           /\ absorbed = 0
           /\ last.tag = SubSeq(init_key, 17, 32)
           /\ init_key = [i \in 1..POLY1305_KEYSIZE |-> 0]
                => last.tag = [i \in 1..POLY1305_BLOCKSIZE |-> 0]

\* init, update(empty), finalize under the key of RFC 8439.
C11_Witness ==
    /\ engine = "poly1305" /\ FinalizedOk /\ msg = <<>>
    /\ script = 2
    /\ init_key = RfcKey
    /\ last.tag = SubSeq(RfcKey, 17, 32)

\* init applied to the key the state was made with.
InitState ==
    IF engine = "poly1305" THEN poly1305_init(init_key) ELSE hmac_init(init_key)

\* C12: errors leave the state intact, both engines.  An update or a finalize
\* that fails with Finalized changes no field of the state and leaves it
\* finalized; a reset right after such a failure gives the state of init, the
\* key material (Hmac ipad and opad_hasher, Poly1305 r and s) as it was.
C12_ErrorsLeaveStateIntact ==
    /\ [][(last'.op \in {"update", "finalize"} /\ last'.res = "Finalized")
            => (state' = state /\ state'.is_finalized)]_vars
    /\ []((last.op = "reset" /\ prev = "Finalized")
            => /\ state = InitState
               /\ ~state.is_finalized
               /\ engine = "hmac" => /\ state.ipad = InitState.ipad
                                      /\ state.opad_hasher = InitState.opad_hasher
               /\ engine = "poly1305" => /\ state.r = InitState.r
                                          /\ state.s = InitState.s)

\* A reset of an Hmac state whose last call failed.
C12_Witness ==
    /\ last.op = "reset" /\ prev = "Finalized"
    /\ engine = "hmac"

\* C13: the Poly1305 leftover invariant.  After every successful update
\* leftover is below 16 and is the number of bytes fed since the last
\* init/reset modulo 16, the updates have absorbed that number divided by 16
\* blocks, and the first leftover bytes of buffer are the last leftover bytes
\* fed.
C13_LeftoverInvariant ==
    (engine = "poly1305" /\ last.op = "update" /\ last.res = "Ok")
        => /\ 0 <= state.leftover /\ state.leftover < POLY1305_BLOCKSIZE
           /\ state.leftover = Len(msg) % POLY1305_BLOCKSIZE
           /\ absorbed = Len(msg) \div POLY1305_BLOCKSIZE
           /\ SubSeq(state.buffer, 1, state.leftover)
                = SubSeq(msg, Len(msg) - state.leftover + 1, Len(msg))

\* An update that began inside a block, filled it and absorbed one more.
C13_Witness ==
    /\ engine = "poly1305" /\ last.op = "update" /\ last.res = "Ok"
    /\ last.had % POLY1305_BLOCKSIZE # 0
    /\ Len(calls) = 2
    /\ state.leftover = 1
    /\ absorbed = 2

\* The last leftover bytes fed, a 0x01 byte and zeroes up to the block size.
PaddedTail ==
    SubSeq(msg, Len(msg) - state.leftover + 1, Len(msg))
        \o <<1>>
        \o [i \in 1..(POLY1305_BLOCKSIZE - 1 - state.leftover) |-> 0]

\* C14: the Poly1305 high-bit rule.  Every block an update absorbs, the
\* refilled buffer and the aligned blocks of the payload alike, is absorbed
\* with hibit = 1 << 24, and those blocks are the bytes fed, in order.  A
\* finalize absorbs one block when leftover is not 0, the leftover bytes, a
\* 0x01 byte and zeroes, with hibit = 0, and none when leftover is 0.
C14_HighBitRule ==
    engine = "poly1305"
        => /\ last.op = "update"
                => /\ \A c \in 1..Len(calls) :
                        /\ calls[c].hibit = Lit(16777216)
                        /\ calls[c].data
                             = SubSeq(msg,
                                      (absorbed - Len(calls) + c - 1) * POLY1305_BLOCKSIZE + 1,
                                      (absorbed - Len(calls) + c) * POLY1305_BLOCKSIZE)
                   /\ last.res = "Ok" => ~state.is_finalized
           /\ (last.op = "finalize" /\ last.res = "Ok" /\ state.leftover # 0)
                => /\ state.is_finalized
                   /\ Len(calls) = 1
                   /\ calls[1].hibit = Zero32
                   /\ calls[1].data = PaddedTail
           /\ (last.op = "finalize" /\ (last.res # "Ok" \/ state.leftover = 0))
                => calls = <<>>
           /\ last.op \notin {"update", "finalize"} => calls = <<>>

\* A finalize that absorbed a partial last block after two whole ones.
C14_Witness ==
    /\ engine = "poly1305" /\ FinalizedOk
    /\ absorbed = 2
    /\ Len(calls) = 1
    /\ calls[1].hibit = Zero32
    /\ state.leftover = 1

\* The padded key xor 128 bytes of pad.
KeyXor(pad) == [i \in 1..SHA2_BLOCKSIZE |-> XorD(init_key[i], pad)]

\* C15: the HMAC inner-hasher invariant.  In every reachable state of an Hmac
\* the inner hasher has absorbed exactly ipad xor K followed by the bytes of
\* the successful updates since the last reset, or since init.
C15_HmacInnerHasher ==
    engine = "hmac" => state.ipad_hasher = KeyXor(54) \o msg

\* C16: the HMAC outer hasher is frozen after init.  No update, finalize or
\* reset, failing ones included, changes opad_hasher or the ipad buffer: in
\* every state opad_hasher has absorbed exactly opad xor K and ipad is ipad
\* xor K; the inner digest goes to a clone.
C16_HmacOuterFrozen ==
    /\ [][engine = "hmac" => /\ state'.opad_hasher = state.opad_hasher
                              /\ state'.ipad = state.ipad]_vars
    /\ [](engine = "hmac" => /\ state.opad_hasher = KeyXor(92)
                              /\ state.ipad = KeyXor(54))

\* A second successful finalize of an Hmac state, after a reset and bytes.
C16_Witness ==
    /\ engine = "hmac" /\ FinalizedOk
    /\ resets > 0
    /\ Len(msg) > 0
    /\ state.opad_hasher = KeyXor(92)

\* The abstract hash H of a sequence of bytes.
H(bytes) == [sha512 |-> bytes, flip |-> {}]

\* C17: HMAC composition.  A successful finalize after init(K) and updates
\* whose payloads concatenate to M returns H((K xor opad) || H((K xor ipad) ||
\* M)), K the padded key, ipad 128 bytes of 0x36 and opad 128 bytes of 0x5C;
\* the one-shot hmac(K, M) returns the same value.
C17_HmacComposition ==
    (engine = "hmac" /\ resets = 0 /\ FinalizedOk)
        => /\ last.tag = H(KeyXor(92) \o <<H(KeyXor(54) \o msg)>>)
           /\ hmac(init_key, msg).res = "Ok"
           /\ hmac(init_key, msg).tag = last.tag

\* "Tests" fed in two parts, then finalize.
C17_Witness ==
    /\ engine = "hmac" /\ resets = 0 /\ FinalizedOk
    /\ msg = <<84, 101, 115, 116, 115>>
    /\ last.tag = H(KeyXor(92) \o <<H(KeyXor(54) \o msg)>>)

\* The low 16 key bytes with the clamp of RFC 8439: the top four bits of
\* bytes 3, 7, 11, 15 and the bottom two bits of bytes 4, 8, 12 cleared.
ClampedLow(key) ==
    [i \in 1..POLY1305_BLOCKSIZE |->
        IF (i - 1) \in {3, 7, 11, 15} THEN AndD(key[i], 15)
        ELSE IF (i - 1) \in {4, 8, 12} THEN AndD(key[i], 252)
        ELSE key[i]]

\* C18: the Poly1305 key material is frozen after init.  No update, finalize
\* or reset changes r or s: in every state r is the clamped low 16 key bytes
\* and s the high 16 key bytes.
C18_Poly1305KeyFrozen ==
    /\ [][engine = "poly1305" => /\ state'.r = state.r
                                  /\ state'.s = state.s]_vars
    /\ [](engine = "poly1305"
            => /\ state.r = InitState.r
               /\ state.s = InitState.s
               /\ write_u32_into(pack(state.r)) = ClampedLow(init_key)
               /\ write_u32_into(state.s) = SubSeq(init_key, 17, 32))

\* A finalize past one block, after a reset, under the key of RFC 8439.
C18_Witness ==
    /\ engine = "poly1305" /\ FinalizedOk
    /\ init_key = RfcKey
    /\ resets > 0
    /\ Len(msg) > POLY1305_BLOCKSIZE
    /\ write_u32_into(state.s) = SubSeq(RfcKey, 17, 32)

\* C19: no internal failure on well-formed use of Poly1305.  Every
\* process_block call of update and finalize passes exactly 16 bytes and
\* returns Ok, every index at which they write the 16-byte buffer is below 16,
\* and the one-shot poly1305 of the bytes fed returns Ok.
C19_NoInternalFailure ==
    engine = "poly1305"
        => /\ \A c \in 1..Len(calls) :
                /\ Len(calls[c].data) = POLY1305_BLOCKSIZE
                /\ calls[c].res = "Ok"
           /\ \A w \in writes : 0 <= w /\ w < POLY1305_BLOCKSIZE
           /\ poly1305(init_key, msg).res = "Ok"

\* An update that filled the buffer up to its last index and absorbed two
\* blocks.
C19_Witness ==
    /\ engine = "poly1305" /\ last.op = "update" /\ last.res = "Ok"
    /\ last.had % POLY1305_BLOCKSIZE # 0
    /\ (POLY1305_BLOCKSIZE - 1) \in writes
    /\ Len(calls) = 2

\* Integers past 32 bits, as 11 little-endian digits of 13 bits: a sequence
\* of digit sums, carried.
RECURSIVE Carried(_, _)
Carried(raw, c) ==
    IF raw = <<>> THEN <<>>
    ELSE <<(Head(raw) + c) % D>> \o Carried(Tail(raw), (Head(raw) + c) \div D)

\* The integer h0 + h1 * 2^26 + h2 * 2^52 + h3 * 2^78 + h4 * 2^104 of five
\* limbs, each a u32.
LimbsValue(h) ==
    Carried(<<h[1][1], h[1][2], h[1][3] + h[2][1], h[2][2], h[2][3] + h[3][1],
              h[3][2], h[3][3] + h[4][1], h[4][2], h[4][3] + h[5][1], h[5][2],
              h[5][3]>>, 0)

\* The integer w0 + w1 * 2^32 + w2 * 2^64 + w3 * 2^96 of four u32 words.
WordsValue(w) ==
    Carried(<<w[1][1], w[1][2], w[1][3] + 64 * w[2][1],
              64 * w[2][2], 64 * w[2][3] + 4096 * w[3][1],
              4096 * w[3][2], 4096 * w[3][3],
              32 * w[4][1], 32 * w[4][2], 32 * w[4][3], 0>>, 0)

\* x >= 2^130 - 5.
AtLeastP(x) ==
    \/ x[11] # 0
    \/ x[1] >= D - 5 /\ \A k \in 2..10 : x[k] = D - 1

\* x modulo 2^130 - 5: 2^130 is 5 modulo it.
RECURSIVE ModP(_)
ModP(x) ==
    IF x[11] # 0
    THEN ModP(Carried([x EXCEPT ![1] = @ + 5 * x[11], ![11] = 0], 0))
    ELSE IF AtLeastP(x)
    THEN <<x[1] - (D - 5), 0, 0, 0, 0, 0, 0, 0, 0, 0, 0>>
    ELSE x

\* (x + y) modulo 2^128.
AddMod128(x, y) ==
    [Carried([k \in 1..11 |-> x[k] + y[k]], 0) EXCEPT ![10] = @ % 2048, ![11] = 0]

\* C20: the Poly1305 final reduction.  For an accumulator with limbs below
\* 2^26, a[1] with slack, and any pad s, process_end_of_stream leaves in
\* a[0..4] the words of ((h mod (2^130 - 5)) + s) mod 2^128, h the integer of
\* the five limbs; the select mask is all ones exactly when the fully carried
\* h is at least 2^130 - 5 and all zeroes otherwise.
C20_FinalReduction ==
    vin.phase = "reduced"
        => /\ WordsValue(SubSeq(state.a, 1, 4))
                = AddMod128(ModP(LimbsValue(vin.a)), WordsValue(state.s))
           /\ select_mask(minus_p(full_carry(vin.a))[5])
                = (IF AtLeastP(LimbsValue(full_carry(vin.a)))
                   THEN Not32(Zero32) ELSE Zero32)
           /\ state.a[5] = vin.a[5]

\* The accumulator 2^130 - 5 itself, reduced to 0 under the pad of RFC 8439:
\* the mask is all ones and the result is the pad.
C20_Witness ==
    /\ vin.phase = "reduced"
    /\ init_key = RfcKey
    /\ vin.a = <<Lit(67108859), Lit(67108863), Lit(67108863), Lit(67108863), Lit(67108863)>>
    /\ AtLeastP(LimbsValue(full_carry(vin.a)))
    /\ select_mask(minus_p(full_carry(vin.a))[5]) = Not32(Zero32)
    /\ SubSeq(state.a, 1, 4) = state.s

\* C21: the Poly1305 limb bounds.  After process_block, for a clamped r, any
\* block and limbs that were in these ranges on entry, a[0], a[2], a[3] and
\* a[4] are below 2^26 and a[1] is below 2^27; and none of its operations
\* written with + and * exceeds 32 bits (the adds of the message limbs, s_i =
\* 5 * r_i, h0 += c * 5, h1 += c), no narrowing of a carry d_i >> 26 to u32
\* drops a bit, and no sum d_i exceeds 64 bits.
C21_LimbBounds ==
    vin.phase = "absorbed"
        => /\ vout = "Ok"
           /\ \A i \in {1, 3, 4, 5} : state.a[i][3] = 0
           /\ state.a[2][3] <= 1
           /\ add_block(vin.a, vin.block, hibit(state))
                = [i \in 1..5 |-> AddU32(vin.a[i], block_limbs(vin.block, hibit(state))[i])]
           /\ ~process_block_overflows(vin.a, state.r, vin.block, hibit(state))

\* The largest limbs, the largest clamped r and the block of 0xff bytes, in
\* update.
C21_Witness ==
    /\ vin.phase = "absorbed"
    /\ ~state.is_finalized
    /\ init_key = [i \in 1..POLY1305_KEYSIZE |-> 255]
    /\ vin.block = [i \in 1..POLY1305_BLOCKSIZE |-> 255]
    /\ vin.a = <<Lit(67108863), Lit(134217727), Lit(67108863), Lit(67108863), Lit(67108863)>>
    /\ vout = "Ok"
    /\ state.a # vin.a

\* C22: zeroization on destruction.  A drop in any lifecycle state leaves the
\* Poly1305 fields a, r, s and buffer all zero, and leaves the Hmac ipad all
\* zero and neither hasher holding what the key fed it.
C22_ZeroizeOnDrop ==
    vin.phase = "dropped"
        => /\ engine = "poly1305"
                => /\ state.a = <<Zero32, Zero32, Zero32, Zero32, Zero32>>
                   /\ state.r = <<Zero32, Zero32, Zero32, Zero32, Zero32>>
                   /\ state.s = <<Zero32, Zero32, Zero32, Zero32>>
                   /\ state.buffer = [i \in 1..POLY1305_BLOCKSIZE |-> 0]
           /\ engine = "hmac"
                => /\ state.ipad = [i \in 1..SHA2_BLOCKSIZE |-> 0]
                   /\ state.opad_hasher = Sha512_default
                   /\ state.ipad_hasher = Sha512_default

====
